---------------------------- MODULE Spec2Model ----------------------------
(***************************************************************************)
(* Model of roi_data_layer/roibatchLoader.py: the per-sample data loaders  *)
(* of the Visual Manipulation Relationship Network.                        *)
(*                                                                         *)
(* Conventions.                                                            *)
(*  - A tensor is a function on 0..(n-1), as the code indexes it; a matrix *)
(*    is a tensor of rows.  The empty tensor is << >>.                     *)
(*  - Ground-truth coordinates are floats in the code.  The model keeps    *)
(*    them as integers counting 1/CoordDen of a pixel, so that int(), the  *)
(*    comparisons and the shifts act as they do on fractional values.      *)
(*  - A ratio (width / height) is a reduced fraction [n, d].               *)
(*  - The code is Python 2 (range() is a list that np.random.shuffle can   *)
(*    permute); division is true division (from __future__ import).        *)
(***************************************************************************)
EXTENDS Integers, Sequences, FiniteSets, TLC

VARIABLES
    pc,                \* position of the caller: which call is next / how it ended
    cls,               \* the class of the loader
    max_num_box,       \* roibatchLoader.max_num_box   (cfg.MAX_NUM_GT_BOXES)
    max_num_grasp,     \* roibatchLoader.max_num_grasp (cfg.MAX_NUM_GT_GRASPS)
    training,          \* roibatchLoader.training
    ratio_list,        \* roibatchLoader.ratio_list
    batch_size,        \* roibatchLoader.batch_size
    ratio_list_batch,  \* mulInSizeRoibatchLoader.ratio_list_batch
    args,              \* arguments of the call in progress (for a fetch: index and blobs)
    locals,            \* local variables of the call at its end (random draws included)
    ret                \* value returned by the call, or Raised

\* what the constructor's caller fixes
config == <<cls, max_num_box, max_num_grasp, training, ratio_list, batch_size>>

vars == <<pc, config, ratio_list_batch, args, locals, ret>>

----------------------------------------------------------------------------
(* Tensors *)

\* Python's None where a tensor may stand: a function no tensor equals
None == [i \in {-1} |-> 0]
\* a variable that holds nothing yet
NoValue == [novalue |-> TRUE]

Size(t) == Cardinality(DOMAIN t)

Tensor(seq) == [i \in 0..(Len(seq) - 1) |-> seq[i + 1]]

Zeros(n) == [c \in 0..(n - 1) |-> 0]

Min2(a, b) == IF a < b THEN a ELSE b

Max2(a, b) == IF a > b THEN a ELSE b

\* t[idx]: rows of t selected by an index tensor
Gather(t, idx) == [i \in DOMAIN idx |-> t[idx[i]]]

\* t[:n]
Prefix(t, n) == [i \in 0..(Min2(n, Size(t)) - 1) |-> t[i]]

\* torch.nonzero(mask).view(-1): the indices where mask holds, ascending
Nonzero(mask) ==
    LET S == {i \in DOMAIN mask : mask[i]}
    IN  [k \in 0..(Cardinality(S) - 1) |->
            CHOOSE i \in S : Cardinality({j \in S : j < i}) = k]

\* all tensors of exactly n entries drawn from S
TensorsOf(S, n) == [0..(n - 1) -> S]

\* all tensors of at most n entries drawn from S
TensorsUpTo(S, n) == UNION {TensorsOf(S, m) : m \in 0..n}

----------------------------------------------------------------------------
(* objdetRoibatchLoader._boxPostProcess *)

boxNotKeep(gt_boxes) ==
    [i \in DOMAIN gt_boxes |->
        (gt_boxes[i][0] = gt_boxes[i][2]) \/ (gt_boxes[i][1] = gt_boxes[i][3])]

\* mutant of boxKeep: the keep list is not cut to maxbox entries
boxKeepUncut(gt_boxes, maxbox) ==
    LET not_keep == boxNotKeep(gt_boxes)
    IN  Nonzero([i \in DOMAIN not_keep |-> ~not_keep[i]])

\* keep: indices of the non-degenerate rows, cut to the first maxbox of them
boxKeep(gt_boxes, maxbox) ==
    LET not_keep == boxNotKeep(gt_boxes)
        keep == Nonzero([i \in DOMAIN not_keep |-> ~not_keep[i]])
        num_boxes == Min2(Size(keep), maxbox)
    IN  Prefix(keep, num_boxes)

boxPostProcess(gt_boxes, maxbox) ==
    LET keep == boxKeep(gt_boxes, maxbox)
        num_boxes == Size(keep)
        kept == Gather(gt_boxes, keep)
        gt_boxes_padding ==
            [i \in 0..(maxbox - 1) |-> IF i < num_boxes THEN kept[i] ELSE Zeros(5)]
    IN  [gt_boxes |-> gt_boxes_padding, keep |-> keep]

----------------------------------------------------------------------------
(* graspdetRoibatchLoader._graspPostProcess *)

\* mutant of graspPad: the last kept row is left zero
graspPadShort(gt_grasps, maxgrasp) ==
    LET num_grasps == Min2(Size(gt_grasps), maxgrasp)
    IN  [i \in 0..(maxgrasp - 1) |-> IF i < num_grasps - 1 THEN gt_grasps[i] ELSE Zeros(8)]

graspPad(gt_grasps, maxgrasp) ==
    LET num_grasps == Min2(Size(gt_grasps), maxgrasp)
    IN  [i \in 0..(maxgrasp - 1) |-> IF i < num_grasps THEN gt_grasps[i] ELSE Zeros(8)]

graspIndsPad(gt_grasp_inds, num_grasps, maxgrasp) ==
    [i \in 0..(maxgrasp - 1) |-> IF i < num_grasps THEN gt_grasp_inds[i] ELSE 0]

graspPostProcess(gt_grasps, gt_grasp_inds, maxgrasp) ==
    LET num_grasps == Min2(Size(gt_grasps), maxgrasp)
    IN  [gt_grasps |-> graspPad(gt_grasps, maxgrasp),
         num_grasps |-> num_grasps,
         gt_grasp_inds |-> IF gt_grasp_inds = None THEN None
                           ELSE graspIndsPad(gt_grasp_inds, num_grasps, maxgrasp)]


----------------------------------------------------------------------------
(* vmrdetRoibatchLoader._genRelMat *)

\* cfg.VMRN relationship codes; 0 is an entry the loops never wrote
FATHER == 1
CHILD == 2
NOREL == 3

\* mutant of relLabel: the parent list is never consulted
relLabelNoParents(ind_o2, o1_children, o1_fathers) ==
    IF ind_o2 \in o1_children THEN FATHER ELSE NOREL

\* the label written at [o1, o2]; the lists are read by membership only
relLabel(ind_o2, o1_children, o1_fathers) ==
    IF ind_o2 \in o1_children THEN FATHER
    ELSE IF ind_o2 \in o1_fathers THEN CHILD
    ELSE NOREL

\* mutant of relSkip: only the diagonal is skipped
relSkipDiagonal(o1, o2, ind_o1, ind_o2, entry) == o1 = o2

\* the continue of the inner loop
relSkip(o1, o2, ind_o1, ind_o2, entry) == ind_o2 = ind_o1 \/ entry # 0

\* iterations k, k+1, ... of "for o1 in range(num_boxes): for o2 in range(num_boxes)"
RECURSIVE relLoop(_, _, _, _, _, _)
relLoop(rel_mat, k, obj_list, node_inds, child_lists, parent_lists) ==
    LET num_boxes == Size(obj_list)
        o1 == k \div num_boxes
        o2 == k % num_boxes
        ind_o1 == node_inds[obj_list[o1]]
        ind_o2 == node_inds[obj_list[o2]]
        o1_children == child_lists[obj_list[o1]]
        o1_fathers == parent_lists[obj_list[o1]]
    IN  IF k >= num_boxes * num_boxes THEN rel_mat
        ELSE IF relSkip(o1, o2, ind_o1, ind_o2, rel_mat[o1][o2])
             THEN relLoop(rel_mat, k + 1, obj_list, node_inds, child_lists, parent_lists)
             ELSE relLoop([rel_mat EXCEPT ![o1][o2] = relLabel(ind_o2, o1_children, o1_fathers)],
                          k + 1, obj_list, node_inds, child_lists, parent_lists)

genRelMat(obj_list, node_inds, child_lists, parent_lists, maxbox) ==
    relLoop([o1 \in 0..(maxbox - 1) |-> Zeros(maxbox)], 0,
            obj_list, node_inds, child_lists, parent_lists)

----------------------------------------------------------------------------
(* Ratios: width / height as a reduced fraction n / d, d > 0 *)

Ratio(n, d) == [n |-> n, d |-> d]

One == Ratio(1, 1)

RatioZero == Ratio(0, 1)

RatioLess(a, b) == a.n * b.d < b.n * a.d

\* int(np.floor(x / r)) for an integer x >= 0
FloorDivRatio(x, r) == (x * r.d) \div r.n

\* int(np.ceil(x * r)) for an integer x >= 0
CeilMulRatio(x, r) == (x * r.n + r.d - 1) \div r.d

\* int(np.ceil(x / r)) for an integer x >= 0
CeilDivRatio(x, r) == (x * r.d + r.n - 1) \div r.n

----------------------------------------------------------------------------
(* mulInSizeRoibatchLoader.__init__: the aspect-ratio batch plan *)

\* mutant of batchTarget: a batch that straddles 1 keeps its leftmost ratio
batchTargetNoSquare(rlist, left_idx, right_idx) ==
    IF RatioLess(rlist[right_idx], One) THEN rlist[left_idx]
    ELSE IF RatioLess(One, rlist[left_idx]) THEN rlist[right_idx]
    ELSE rlist[left_idx]

\* the target ratio of the batch [left_idx, right_idx]
batchTarget(rlist, left_idx, right_idx) ==
    IF RatioLess(rlist[right_idx], One) THEN rlist[left_idx]
    ELSE IF RatioLess(One, rlist[left_idx]) THEN rlist[right_idx]
    ELSE One

batchRight(i, bsize, data_size) == Min2((i + 1) * bsize - 1, data_size - 1)

\* iterations i, i+1, ... of "for i in range(num_batch)"
RECURSIVE batchLoop(_, _, _, _, _)
batchLoop(rlb, i, num_batch, rlist, bsize) ==
    IF i >= num_batch THEN rlb
    ELSE LET left_idx == i * bsize
             right_idx == batchRight(i, bsize, Size(rlist))
             target_ratio == batchTarget(rlist, left_idx, right_idx)
         IN  batchLoop([j \in DOMAIN rlb |->
                           IF left_idx <= j /\ j < right_idx + 1 THEN target_ratio
                           ELSE rlb[j]],
                       i + 1, num_batch, rlist, bsize)

\* ratio_index has one entry per entry of ratio_list
ratioListBatch(rlist, bsize) ==
    LET data_size == Size(rlist)
        num_batch == (data_size + bsize - 1) \div bsize
    IN  batchLoop([j \in 0..(data_size - 1) |-> RatioZero], 0, num_batch, rlist, bsize)

----------------------------------------------------------------------------
(* Images and coordinates *)

\* Coordinates count 1/CoordDen of a pixel
CoordDen == 2

Px(p) == p * CoordDen

\* int(x) of a float: truncation toward zero
IntOf(c) == IF c >= 0 THEN c \div CoordDen ELSE -((-c) \div CoordDen)

SetMin(S) == CHOOSE m \in S : \A x \in S : m <= x

SetMax(S) == CHOOSE m \in S : \A x \in S : m >= x

\* An image is held by where its rows and columns come from: rows[i] = r + 1 for
\* row r of the image the minibatch builder returned, 0 for a row of zeros;
\* columns alike.  Pixel (i, j) is zero when rows[i] = 0 or cols[j] = 0.
Image(height, width) ==
    [rows |-> [i \in 0..(height - 1) |-> i + 1], cols |-> [j \in 0..(width - 1) |-> j + 1]]

Height(data) == Size(data.rows)

Width(data) == Size(data.cols)

\* t[a:b] for 0 <= a
Slice(t, a, b) ==
    LET lo == Min2(a, Size(t))
        hi == Max2(lo, Min2(b, Size(t)))
    IN  [i \in 0..(hi - lo - 1) |-> t[lo + i]]

\* mutant of ZeroPad: the last entry is repeated instead of zeros
ZeroPadEdge(t, n) == [i \in 0..(n - 1) |-> IF i < Size(t) THEN t[i] ELSE t[Size(t) - 1]]

\* t followed by zeros, n entries in all (n >= Size(t))
ZeroPad(t, n) == [i \in 0..(n - 1) |-> IF i < Size(t) THEN t[i] ELSE 0]

----------------------------------------------------------------------------
(* mulInSizeRoibatchLoader._cropImage *)

\* gt_boxes[:, :-1][:, start::2].view(-1), as the set of its values.  The
\* slice keeps the row stride of gt_boxes (its number of columns) and has a
\* column stride of 2: with two or more rows view(-1) raises RuntimeError
\* unless the row stride is twice the number of columns kept.
axisValues(gt_boxes, start) ==
    LET n == Size(gt_boxes)
        width == IF n = 0 THEN 0 ELSE Size(gt_boxes[0])
        kept == {k \in 0..(width - 2) : k % 2 = start}
    IN  [raises |-> n >= 2 /\ width # 2 * Cardinality(kept),
         values |-> UNION {{gt_boxes[i][c] : c \in kept} : i \in DOMAIN gt_boxes}]

\* trim_size when the height is cropped (target_ratio < 1)
cropTrimHeight(data_height, data_width, target_ratio) ==
    Min2(FloorDivRatio(data_width, target_ratio), data_height)

\* trim_size when the width is cropped
cropTrimWidth(data_height, data_width, target_ratio) ==
    Min2(CeilMulRatio(data_height, target_ratio), data_width)

\* The start offsets y_s (x_s) the code can choose along the cropped axis, or
\* that it raises: RuntimeError for a negative minimum, the ValueError of
\* np.random.choice for an empty range.
cropStarts(min_c, max_c, trim_size, data_len) ==
    LET box_region == max_c - min_c + 1
    IN  IF min_c > 0
        THEN IF box_region - trim_size < 0
             THEN LET s_min == Max2(max_c - trim_size, 0)
                      s_max == Min2(min_c, data_len - trim_size)
                  IN  IF s_min = s_max THEN [raises |-> FALSE, starts |-> {s_min}]
                      ELSE [raises |-> s_min > s_max, starts |-> s_min..(s_max - 1)]
             ELSE LET s_add == (box_region - trim_size) \div 2
                  IN  IF s_add = 0 THEN [raises |-> FALSE, starts |-> {min_c}]
                      ELSE [raises |-> FALSE, starts |-> min_c..(min_c + s_add - 1)]
        ELSE IF min_c < 0 THEN [raises |-> TRUE, starts |-> {}]
        ELSE [raises |-> FALSE, starts |-> {0}]

\* "if target_ratio < 1": the height is cropped, else the width
cropAlongHeight(target_ratio) == RatioLess(target_ratio, One)

\* the results the call can have: raises, or one (data, (x_s, y_s)) per offset;
\* view(-1) of the strided slice and torch.min of no element raise
cropImage(data, gt_boxes, target_ratio) ==
    LET data_height == Height(data)
        data_width == Width(data)
    IN  IF cropAlongHeight(target_ratio)
        THEN LET view == axisValues(gt_boxes, 1)
                 ys == view.values
             IN  IF view.raises \/ ys = {} THEN [raises |-> TRUE, outs |-> {}]
                 ELSE LET min_y == IntOf(SetMin(ys))
                          max_y == IntOf(SetMax(ys))
                          trim_size == cropTrimHeight(data_height, data_width, target_ratio)
                          st == cropStarts(min_y, max_y, trim_size, data_height)
                      IN  [raises |-> st.raises,
                           outs |-> IF st.raises THEN {}
                                    ELSE {[data |-> [rows |-> Slice(data.rows, y_s, y_s + trim_size),
                                                     cols |-> data.cols],
                                           coord_s |-> Tensor(<<0, y_s>>)] : y_s \in st.starts}]
        ELSE LET view == axisValues(gt_boxes, 0)
                 xs == view.values
             IN  IF view.raises \/ xs = {} THEN [raises |-> TRUE, outs |-> {}]
                 ELSE LET min_x == IntOf(SetMin(xs))
                          max_x == IntOf(SetMax(xs))
                          trim_size == cropTrimWidth(data_height, data_width, target_ratio)
                          st == cropStarts(min_x, max_x, trim_size, data_width)
                      IN  [raises |-> st.raises,
                           outs |-> IF st.raises THEN {}
                                    ELSE {[data |-> [rows |-> data.rows,
                                                     cols |-> Slice(data.cols, x_s, x_s + trim_size)],
                                           coord_s |-> Tensor(<<x_s, 0>>)] : x_s \in st.starts}]

----------------------------------------------------------------------------
(* mulInSizeRoibatchLoader._paddingImage *)

\* The padded image and im_info, or raises: copying an image into a zero
\* tensor that is shorter (narrower) than the image is a shape error.
\* mutant of paddingImage: the image and im_info are returned as they came
paddingImageKeep(data, im_info, target_ratio) ==
    [raises |-> FALSE, data |-> data, im_info |-> im_info]

paddingImage(data, im_info, target_ratio) ==
    LET data_height == Height(data)
        data_width == Width(data)
    IN  IF RatioLess(target_ratio, One)
        THEN LET new_height == CeilDivRatio(data_width, target_ratio)
             IN  IF data_height > new_height THEN [raises |-> TRUE]
                 ELSE [raises |-> FALSE,
                       data |-> [rows |-> ZeroPad(data.rows, new_height), cols |-> data.cols],
                       im_info |-> [im_info EXCEPT ![0] = new_height]]
        ELSE IF RatioLess(One, target_ratio)
        THEN LET new_width == CeilMulRatio(data_height, target_ratio)
             IN  IF data_width > new_width THEN [raises |-> TRUE]
                 ELSE [raises |-> FALSE,
                       data |-> [rows |-> data.rows, cols |-> ZeroPad(data.cols, new_width)],
                       im_info |-> [im_info EXCEPT ![1] = new_width]]
        ELSE LET trim_size == Min2(data_height, data_width)
             IN  [raises |-> FALSE,
                  data |-> [rows |-> Slice(data.rows, 0, trim_size),
                            cols |-> Slice(data.cols, 0, trim_size)],
                  im_info |-> [im_info EXCEPT ![0] = trim_size, ![1] = trim_size]]

----------------------------------------------------------------------------
(* objdetMulInSizeRoibatchLoader._cropBox *)

\* mutant of Clamp: nothing is clamped
ClampNone(x, lo, hi) == x

\* x.clamp(lo, hi)
Clamp(x, lo, hi) == IF x < lo THEN lo ELSE IF x > hi THEN hi ELSE x

\* data is the padded image; the last column (the label) is left alone
cropBox(data, coord_s, gt_boxes) ==
    [i \in DOMAIN gt_boxes |->
        [c \in DOMAIN gt_boxes[i] |->
            IF c >= Size(gt_boxes[i]) - 1 THEN gt_boxes[i][c]
            ELSE IF c % 2 = 1
                 THEN Clamp(gt_boxes[i][c] - Px(coord_s[1]), 0, Px(Height(data) - 1))
                 ELSE Clamp(gt_boxes[i][c] - Px(coord_s[0]), 0, Px(Width(data) - 1))]]

----------------------------------------------------------------------------
(* graspMulInSizeRoibatchLoader._cropGrasp *)

\* gt_grasps[:, :-1][:, 1::2] -= y_s and gt_grasps[:, :-1][:, 0::2] -= x_s:
\* the slice [:, :-1] leaves the last column out of both shifts
graspShift(coord_s, gt_grasps) ==
    [i \in DOMAIN gt_grasps |->
        [c \in DOMAIN gt_grasps[i] |->
            IF c >= Size(gt_grasps[i]) - 1 THEN gt_grasps[i][c]
            ELSE IF c % 2 = 1 THEN gt_grasps[i][c] - Px(coord_s[1])
                 ELSE gt_grasps[i][c] - Px(coord_s[0])]]

\* the mask of the grasps with 4 x-columns in (0, width) and 4 y-columns in (0, height)
graspKeep(data, shifted) ==
    [i \in DOMAIN shifted |->
        /\ Cardinality({c \in DOMAIN shifted[i] :
                c % 2 = 0 /\ shifted[i][c] > 0 /\ shifted[i][c] < Px(Width(data))}) = 4
        /\ Cardinality({c \in DOMAIN shifted[i] :
                c % 2 = 1 /\ shifted[i][c] > 0 /\ shifted[i][c] < Px(Height(data))}) = 4]

cropGrasp(data, coord_s, gt_grasps, gt_grasp_inds) ==
    LET shifted == graspShift(coord_s, gt_grasps)
        keep == graspKeep(data, shifted)
        idx == Nonzero(keep)
    IN  [gt_grasps |-> Gather(shifted, idx),
         keep |-> keep,
         gt_grasp_inds |-> IF gt_grasp_inds = None THEN None ELSE Gather(gt_grasp_inds, idx)]

----------------------------------------------------------------------------
(* __getitem__ of the eight loader classes *)

BoxClasses == {"objdetRoibatchLoader", "vmrdetRoibatchLoader",
               "objdetMulInSizeRoibatchLoader", "vmrdetMulInSizeRoibatchLoader",
               "roigdetMulInSizeRoibatchLoader", "allInOneMulInSizeRoibatchLoader"}

GraspClasses == {"graspdetRoibatchLoader", "graspMulInSizeRoibatchLoader",
                 "roigdetMulInSizeRoibatchLoader", "allInOneMulInSizeRoibatchLoader"}

RelClasses == {"vmrdetRoibatchLoader", "vmrdetMulInSizeRoibatchLoader",
               "allInOneMulInSizeRoibatchLoader"}

MulClasses == {"objdetMulInSizeRoibatchLoader", "graspMulInSizeRoibatchLoader",
               "vmrdetMulInSizeRoibatchLoader", "roigdetMulInSizeRoibatchLoader",
               "allInOneMulInSizeRoibatchLoader"}

\* the orders np.random.shuffle can leave n rows in
Perms(n) == {q \in [0..(n - 1) -> 0..(n - 1)] : \A i, j \in 0..(n - 1) : i # j => q[i] # q[j]}

\* torch.cat((a[:, :8], b), dim=-1) for tensors of as many rows
catColumns(a, b) ==
    [i \in DOMAIN a |->
        [c \in 0..(8 + Size(b[i]) - 1) |-> IF c < 8 THEN a[i][c] ELSE b[i][c - 8]]]

\* mutant of relObjList: the head of the order before box post-processing
relObjListStale(shuffle_inds, keep) == Prefix(shuffle_inds, Size(keep))

\* shuffle_inds = shuffle_inds[keep]
relObjList(shuffle_inds, keep) == Gather(shuffle_inds, keep)

\* the tuple a class returns, as a record
fetchTuple(c, data, im_info, bp, gp, rel_mat) ==
    CASE c \in {"objdetRoibatchLoader", "objdetMulInSizeRoibatchLoader"} ->
            [raised |-> FALSE, data |-> data, im_info |-> im_info,
             gt_boxes |-> bp.gt_boxes, num_boxes |-> Size(bp.keep)]
      [] c \in {"graspdetRoibatchLoader", "graspMulInSizeRoibatchLoader"} ->
            [raised |-> FALSE, data |-> data, im_info |-> im_info,
             gt_grasps |-> gp.gt_grasps, num_grasps |-> gp.num_grasps]
      [] c \in {"vmrdetRoibatchLoader", "vmrdetMulInSizeRoibatchLoader"} ->
            [raised |-> FALSE, data |-> data, im_info |-> im_info,
             gt_boxes |-> bp.gt_boxes, num_boxes |-> Size(bp.keep), rel_mat |-> rel_mat]
      [] c = "roigdetMulInSizeRoibatchLoader" ->
            [raised |-> FALSE, data |-> data, im_info |-> im_info,
             gt_boxes |-> bp.gt_boxes, gt_grasps |-> gp.gt_grasps,
             num_boxes |-> Size(bp.keep), num_grasps |-> gp.num_grasps,
             gt_grasp_inds |-> gp.gt_grasp_inds]
      [] c = "allInOneMulInSizeRoibatchLoader" ->
            [raised |-> FALSE, data |-> data, im_info |-> im_info,
             gt_boxes |-> bp.gt_boxes, gt_grasps |-> gp.gt_grasps,
             num_boxes |-> Size(bp.keep), num_grasps |-> gp.num_grasps,
             rel_mat |-> rel_mat, gt_grasp_inds |-> gp.gt_grasp_inds]

\* The locals of a training call when it returns or raises.  shuffle_inds is
\* the box order of the relationship classes (shuffle_inds_b in allInOne):
\* the whole shuffle until "shuffle_inds = shuffle_inds[keep]", the kept
\* indices after it.  shuffle_inds_g is the grasp shuffle of the two classes
\* that hold one (named shuffle_inds in roigdet).  The other classes shuffle
\* blobs in place and have no such local.  coord_s is a local of the
\* multi-size classes only: the fixed-size classes hand in None.
fetchLocals(c, shuffle_inds, shuffle_inds_g, coord_s) ==
    [shuffle_inds |-> IF c \in RelClasses THEN shuffle_inds ELSE None,
     shuffle_inds_g |-> IF c \in BoxClasses /\ c \in GraspClasses THEN shuffle_inds_g ELSE None,
     coord_s |-> coord_s]

\* the placeholders returned when not training
fetchSentinel(c, blobs) ==
    fetchTuple(c, blobs.data, blobs.im_info,
               [gt_boxes |-> Tensor(<<Px(1), Px(1), Px(1), Px(1), 1>>), keep |-> << >>],
               [gt_grasps |-> [k \in 0..7 |-> Px(1)], num_grasps |-> 0,
                gt_grasp_inds |-> Tensor(<<0>>)],
               Tensor(<<0>>))

\* the training branch of the fixed-size classes, for one shuffle of each kind
fixTrain(c, blobs, maxbox, maxgrasp, shuffle_b, shuffle_g) ==
    LET gt_boxes == Gather(blobs.gt_boxes, shuffle_b)
        gt_grasps == Gather(blobs.gt_grasps, shuffle_g)
        bp == boxPostProcess(gt_boxes, maxbox)
        gp == graspPostProcess(gt_grasps, None, maxgrasp)
        obj_list == relObjList(shuffle_b, bp.keep)
        rel_mat == genRelMat(obj_list, blobs.nodeinds, blobs.children, blobs.fathers, maxbox)
    IN  [ret |-> fetchTuple(c, blobs.data, blobs.im_info, bp, gp, rel_mat),
         locals |-> fetchLocals(c, obj_list, shuffle_g, None)]

\* The annotations a multi-size class hands to _cropImage: its boxes, its
\* grasps, or torch.cat((gt_grasps[:, :8], gt_boxes), dim=-1), which raises
\* RuntimeError when the two tensors differ in their number of rows.
mulCropArg(c, gt_boxes, gt_grasps) ==
    IF c \in BoxClasses /\ c \in GraspClasses
    THEN IF Size(gt_grasps) # Size(gt_boxes) THEN [raises |-> TRUE, gt_boxes |-> None]
         ELSE [raises |-> FALSE, gt_boxes |-> catColumns(gt_grasps, gt_boxes)]
    ELSE IF c \in BoxClasses THEN [raises |-> FALSE, gt_boxes |-> gt_boxes]
         ELSE [raises |-> FALSE, gt_boxes |-> gt_grasps]

\* "if need_crop: data, coord_s = self._cropImage(...)" of the multi-size classes
mulCrop(c, blobs, ratio, need_crop, gt_boxes, gt_grasps) ==
    IF ~need_crop
    THEN [raises |-> FALSE, outs |-> {[data |-> blobs.data, coord_s |-> Tensor(<<0, 0>>)]}]
    ELSE LET arg == mulCropArg(c, gt_boxes, gt_grasps)
         IN  IF arg.raises THEN [raises |-> TRUE, outs |-> {}]
             ELSE cropImage(blobs.data, arg.gt_boxes, ratio)

\* the training branch of the multi-size classes after the crop
mulAfterCrop(c, blobs, ratio, maxbox, maxgrasp, shuffle_b, shuffle_g, crop) ==
    LET gt_boxes == Gather(blobs.gt_boxes, shuffle_b)
        gt_grasps == Gather(blobs.gt_grasps, shuffle_g)
        gt_grasp_inds == IF c = "graspMulInSizeRoibatchLoader" THEN None
                         ELSE Gather(blobs.gt_grasp_inds, shuffle_g)
        pad == paddingImage(crop.data, blobs.im_info, ratio)
        bp == boxPostProcess(cropBox(pad.data, crop.coord_s, gt_boxes), maxbox)
        cg == cropGrasp(pad.data, crop.coord_s, gt_grasps, gt_grasp_inds)
        gp == graspPostProcess(cg.gt_grasps, cg.gt_grasp_inds, maxgrasp)
        obj_list == relObjList(shuffle_b, bp.keep)
        rel_mat == genRelMat(obj_list, blobs.nodeinds, blobs.children, blobs.fathers, maxbox)
    IN  IF pad.raises
        THEN [ret |-> [raised |-> TRUE],
              locals |-> fetchLocals(c, shuffle_b, shuffle_g, crop.coord_s)]
        ELSE [ret |-> fetchTuple(c, pad.data, pad.im_info, bp, gp, rel_mat),
              locals |-> fetchLocals(c, obj_list, shuffle_g, crop.coord_s)]

\* the training branch of the multi-size classes, for one shuffle of each kind
mulTrain(c, blobs, ratio, need_crop, maxbox, maxgrasp, shuffle_b, shuffle_g) ==
    LET crop == mulCrop(c, blobs, ratio, need_crop,
                        Gather(blobs.gt_boxes, shuffle_b), Gather(blobs.gt_grasps, shuffle_g))
    IN  IF crop.raises
        THEN {[ret |-> [raised |-> TRUE],
               locals |-> fetchLocals(c, shuffle_b, shuffle_g, Tensor(<<0, 0>>))]}
        ELSE {mulAfterCrop(c, blobs, ratio, maxbox, maxgrasp, shuffle_b, shuffle_g, out)
              : out \in crop.outs}

\* everything one call of __getitem__(index) can end in
getitem(c, train, rlb, maxbox, maxgrasp, index, blobs, need_crop) ==
    IF ~train THEN {[ret |-> fetchSentinel(c, blobs), locals |-> NoValue]}
    ELSE UNION {IF c \in MulClasses
                THEN mulTrain(c, blobs, rlb[index], need_crop, maxbox, maxgrasp,
                              shuffle_b, shuffle_g)
                ELSE {fixTrain(c, blobs, maxbox, maxgrasp, shuffle_b, shuffle_g)}
                : shuffle_b \in Perms(Size(blobs.gt_boxes)),
                  shuffle_g \in Perms(Size(blobs.gt_grasps))}

\* mutant of Fetch: the fetch overwrites the plan entry it read
FetchWritesPlan(S) ==
    /\ pc = "ready"
    /\ \E index \in DOMAIN ratio_list, smp \in S :
          \E o \in getitem(cls, training, ratio_list_batch, max_num_box, max_num_grasp,
                           index, smp.blobs, smp.need_crop) :
              /\ args' = [index |-> index, blobs |-> smp.blobs, need_crop |-> smp.need_crop]
              /\ ret' = o.ret
              /\ locals' = o.locals
              /\ ratio_list_batch' = [j \in DOMAIN ratio_list_batch |->
                                         IF j = index THEN One ELSE ratio_list_batch[j]]
    /\ pc' = "fetched"
    /\ UNCHANGED config

\* One call of __getitem__.  _roidb is the caller's: S holds the samples
\* (the blobs of get_minibatch and the need_crop flag) an index can stand for.
Fetch(S) ==
    /\ pc = "ready"
    /\ \E index \in DOMAIN ratio_list, smp \in S :
          \E o \in getitem(cls, training, ratio_list_batch, max_num_box, max_num_grasp,
                           index, smp.blobs, smp.need_crop) :
              /\ args' = [index |-> index, blobs |-> smp.blobs, need_crop |-> smp.need_crop]
              /\ ret' = o.ret
              /\ locals' = o.locals
    /\ pc' = "fetched"
    /\ UNCHANGED <<config, ratio_list_batch>>

\* The caller takes the tuple, or the exception; the tensors of a fetch do not
\* outlive it, and the loader is ready for the next fetch.
Consume ==
    /\ pc = "fetched"
    /\ pc' = "ready"
    /\ args' = NoValue
    /\ locals' = NoValue
    /\ ret' = NoValue
    /\ UNCHANGED <<config, ratio_list_batch>>

----------------------------------------------------------------------------
(* Values every specification gives the variables it does not use *)

MaxBoxes == 3        \* most ground-truth boxes of a sample
MaxNumBoxCap == 2    \* largest cfg.MAX_NUM_GT_BOXES tried
BoxCoordMax == 1     \* largest box coordinate tried by SpecBoxPost
MaxGrasps == 3       \* most ground-truth grasps of a sample
MaxNumGraspCap == 2  \* largest cfg.MAX_NUM_GT_GRASPS tried
GraspValMax == 2     \* grasp rows and grasp indices tried by SpecGraspPost

MaxData == 4         \* longest ratio list (SpecPlan)
MaxBatch == 3        \* largest batch size (SpecPlan)
MaxCropLen == 6      \* longest cropped axis, in pixels (SpecCrop)
MaxOtherLen == 2     \* longest other axis, in pixels (SpecCrop)
PadLen == 4          \* largest height and width of SpecPad
PadScale == 2        \* largest scale factor in im_info of SpecPad
CropBoxLen == 2      \* largest height, width and offset of the _cropBox calls of SpecBoxMul
GraspCropLen == 3    \* largest height and width of SpecCropGrasp
GraspCropOff == 1    \* largest crop offset of SpecCropGrasp
ObjBoxes == 2        \* most boxes of a sample of SpecObjdetMul
ObjData == 2         \* most samples of the dataset of SpecObjdetMul
ObjBatch == 2        \* largest batch size of SpecObjdetMul
VmrObjs == 3         \* most objects of a sample (SpecVmr)
RelObjs == 2         \* most objects in a relationship annotation (SpecRelMat)

NoLoader ==
    /\ cls = "roibatchLoader"
    /\ training = TRUE
    /\ ratio_list = << >>
    /\ batch_size = 1
    /\ ratio_list_batch = << >>

----------------------------------------------------------------------------
(* SpecBoxPost: _boxPostProcess applied to every small box list *)

BoxRow(x1, y1, x2, y2, label) == Tensor(<<x1, y1, x2, y2, label>>)

BoxRows ==
    {BoxRow(0, 0, x2, y2, label) : x2 \in 0..BoxCoordMax, y2 \in 0..BoxCoordMax, label \in 1..2}

InitBoxPost ==
    /\ pc = "call"
    /\ max_num_box \in 1..MaxNumBoxCap
    /\ max_num_grasp = 1
    /\ NoLoader
    /\ args \in {[gt_boxes |-> b] : b \in TensorsUpTo(BoxRows, MaxBoxes)}
    /\ locals = NoValue
    /\ ret = NoValue

CallBoxPostProcess ==
    /\ pc = "call"
    /\ ret' = boxPostProcess(args.gt_boxes, max_num_box)
    /\ pc' = "done"
    /\ UNCHANGED <<config, ratio_list_batch, args, locals>>

NextBoxPost == CallBoxPostProcess

SpecBoxPost == InitBoxPost /\ [][NextBoxPost]_vars

NonDegenerate(B) == {i \in DOMAIN B : B[i][0] # B[i][2] /\ B[i][1] # B[i][3]}

\* C1: _boxPostProcess returns max_num_box rows; with k = min(number of
\* non-degenerate input rows, max_num_box), exactly the rows [0, k) are non-zero
\* and they are the first k non-degenerate input rows in their original order,
\* the rows [k, max_num_box) are zero, and keep has length k.
C1_BoxPostProcess ==
    pc = "done" =>
        LET B == args.gt_boxes
            S == NonDegenerate(B)
            k == Min2(Cardinality(S), max_num_box)
            P == ret.gt_boxes
            keep == ret.keep
            FirstK == {s \in S : Cardinality({t \in S : t < s}) < k}
        IN  /\ DOMAIN P = 0..(max_num_box - 1)
            /\ {i \in DOMAIN P : P[i] # Zeros(5)} = 0..(k - 1)
            /\ \A i \in k..(max_num_box - 1) : P[i] = Zeros(5)
            /\ DOMAIN keep = 0..(k - 1)
            /\ {keep[i] : i \in DOMAIN keep} = FirstK
            /\ \A i, j \in DOMAIN keep : i < j => keep[i] < keep[j]
            /\ \A i \in DOMAIN keep : P[i] = B[keep[i]]

\* a degenerate row precedes two survivors, of which max_num_box = 1 cuts one
C1_Witness ==
    /\ pc = "done"
    /\ Size(args.gt_boxes) = 3
    /\ 0 \notin NonDegenerate(args.gt_boxes)
    /\ Cardinality(NonDegenerate(args.gt_boxes)) = 2
    /\ max_num_box = 1
    /\ ret.keep = Tensor(<<1>>)

----------------------------------------------------------------------------
(* SpecGraspPost: _graspPostProcess applied to every small grasp list *)

GraspRowOf(v) == [c \in 0..7 |-> v + c]

GraspRows == {GraspRowOf(v) : v \in 1..GraspValMax}

InitGraspPost ==
    /\ pc = "call"
    /\ max_num_box = 1
    /\ max_num_grasp \in 1..MaxNumGraspCap
    /\ NoLoader
    /\ args \in UNION {[gt_grasps : TensorsOf(GraspRows, m),
                        gt_grasp_inds : {None} \cup TensorsOf(1..GraspValMax, m)]
                       : m \in 0..MaxGrasps}
    /\ locals = NoValue
    /\ ret = NoValue

CallGraspPostProcess ==
    /\ pc = "call"
    /\ ret' = graspPostProcess(args.gt_grasps, args.gt_grasp_inds, max_num_grasp)
    /\ pc' = "done"
    /\ UNCHANGED <<config, ratio_list_batch, args, locals>>

NextGraspPost == CallGraspPostProcess

SpecGraspPost == InitGraspPost /\ [][NextGraspPost]_vars

\* C2: _graspPostProcess returns num_grasps = min(M, max_num_grasp) and
\* max_num_grasp rows: the first num_grasps rows of the input unchanged and in
\* order, then zero rows; a supplied index array is cut and padded at the same
\* positions.
C2_GraspPostProcess ==
    pc = "done" =>
        LET G == args.gt_grasps
            M == Size(G)
            n == ret.num_grasps
        IN  /\ n = (IF M <= max_num_grasp THEN M ELSE max_num_grasp)
            /\ DOMAIN ret.gt_grasps = 0..(max_num_grasp - 1)
            /\ \A i \in 0..(max_num_grasp - 1) :
                    ret.gt_grasps[i] = (IF i < n THEN G[i] ELSE Zeros(8))
            /\ (args.gt_grasp_inds = None) = (ret.gt_grasp_inds = None)
            /\ args.gt_grasp_inds # None =>
                    /\ DOMAIN ret.gt_grasp_inds = 0..(max_num_grasp - 1)
                    /\ \A i \in 0..(max_num_grasp - 1) :
                            ret.gt_grasp_inds[i] =
                                (IF i < n THEN args.gt_grasp_inds[i] ELSE 0)

\* three grasps with indices, cut to max_num_grasp = 2
C2_Witness ==
    /\ pc = "done"
    /\ Size(args.gt_grasps) = 3
    /\ args.gt_grasp_inds # None
    /\ max_num_grasp = 2
    /\ ret.num_grasps = 2
    /\ ret.gt_grasps[1] = args.gt_grasps[1]

----------------------------------------------------------------------------
(* SpecRelMat: _genRelMat applied to every small relationship annotation *)

\* injective tensors over S: the object orders a shuffle followed by keep yields
Orders(S) ==
    {o \in TensorsUpTo(S, Cardinality(S)) : \A i, j \in DOMAIN o : i # j => o[i] # o[j]}

\* two node ids: enough for objects of equal and of different ids
RelNodeIds == {1, 2}

InitRelMat ==
    /\ pc = "call"
    /\ max_num_grasp = 1
    /\ NoLoader
    /\ \E n \in 0..RelObjs :
          /\ args \in [obj_list : Orders(0..(n - 1)),
                        node_inds : TensorsOf(RelNodeIds, n),
                        child_lists : TensorsOf(SUBSET (RelNodeIds), n),
                        parent_lists : TensorsOf(SUBSET (RelNodeIds), n)]
          /\ max_num_box \in {Max2(1, Size(args.obj_list)), Size(args.obj_list) + 1}
    /\ locals = NoValue
    /\ ret = NoValue

CallGenRelMat ==
    /\ pc = "call"
    /\ ret' = [rel_mat |-> genRelMat(args.obj_list, args.node_inds, args.child_lists,
                                     args.parent_lists, max_num_box)]
    /\ pc' = "done"
    /\ UNCHANGED <<config, ratio_list_batch, args, locals>>

NextRelMat == CallGenRelMat

SpecRelMat == InitRelMat /\ [][NextRelMat]_vars

\* node id of the object at kept position i
RelNode(i) == args.node_inds[args.obj_list[i]]
RelChildren(i) == args.child_lists[args.obj_list[i]]
RelParents(i) == args.parent_lists[args.obj_list[i]]
RelKept == DOMAIN args.obj_list

\* C3 as stated: for all kept positions i # j, FATHER at (i,j) implies CHILD at
\* (j,i); in particular A's node id in B's children list gives FATHER at (B,A)
\* and CHILD at (A,B).
C3_Original ==
    pc = "done" =>
        \A i, j \in RelKept :
            /\ (i # j /\ ret.rel_mat[i][j] = FATHER) => ret.rel_mat[j][i] = CHILD
            /\ (RelNode(i) # RelNode(j) /\ RelNode(j) \in RelChildren(i)) =>
                    (ret.rel_mat[i][j] = FATHER /\ ret.rel_mat[j][i] = CHILD)

\* C3 amended: FATHER at (i,j) implies CHILD at (j,i) whenever i's node id is
\* recorded in j's parents list and not in j's children list; A's node id in
\* B's children list (A, B of different node ids) always gives FATHER at (B,A).
C3_FatherChildInverse ==
    pc = "done" =>
        \A i, j \in RelKept :
            /\ (i # j /\ ret.rel_mat[i][j] = FATHER
                      /\ RelNode(i) \in RelParents(j) /\ RelNode(i) \notin RelChildren(j))
                    => ret.rel_mat[j][i] = CHILD
            /\ (RelNode(i) # RelNode(j) /\ RelNode(j) \in RelChildren(i)) =>
                    ret.rel_mat[i][j] = FATHER

\* object 1 is a child of object 0 and the lists record both directions
C3_Witness ==
    /\ pc = "done"
    /\ Size(args.obj_list) = 2
    /\ RelNode(0) # RelNode(1)
    /\ RelNode(1) \in RelChildren(0)
    /\ RelNode(0) \in RelParents(1)
    /\ RelNode(0) \notin RelChildren(1)
    /\ ret.rel_mat[0][1] = FATHER
    /\ ret.rel_mat[1][0] = CHILD

\* C4: the matrix is max_num_box x max_num_box; for kept positions of
\* different node ids the entry is FATHER if j's id is in i's children, else
\* CHILD if it is in i's parents, else NOREL; entries of equal node ids (the
\* diagonal too) and entries outside the kept block are 0.
C4_RelMatEntries ==
    pc = "done" =>
        /\ DOMAIN ret.rel_mat = 0..(max_num_box - 1)
        /\ \A i \in 0..(max_num_box - 1) :
              /\ DOMAIN ret.rel_mat[i] = 0..(max_num_box - 1)
              /\ \A j \in 0..(max_num_box - 1) :
                    ret.rel_mat[i][j] =
                        IF i \notin RelKept \/ j \notin RelKept THEN 0
                        ELSE IF RelNode(i) = RelNode(j) THEN 0
                        ELSE IF RelNode(j) \in RelChildren(i) THEN FATHER
                        ELSE IF RelNode(j) \in RelParents(i) THEN CHILD
                        ELSE NOREL

\* two kept objects of different node ids, a CHILD entry facing a NOREL entry,
\* and a row outside the kept block
C4_Witness ==
    /\ pc = "done"
    /\ Size(args.obj_list) = 2
    /\ max_num_box = 3
    /\ RelNode(0) # RelNode(1)
    /\ ret.rel_mat[0][1] = CHILD
    /\ ret.rel_mat[1][0] = NOREL
    /\ ret.rel_mat[2][0] = 0

----------------------------------------------------------------------------
(* SpecPlan: the constructor applied to every small ratio list *)

Ratios == {Ratio(1, 2), Ratio(3, 4), One, Ratio(3, 2), Ratio(2, 1)}

InitPlan ==
    /\ pc = "new"
    /\ cls = "mulInSizeRoibatchLoader"
    /\ max_num_box = 1
    /\ max_num_grasp = 1
    /\ training = TRUE
    /\ ratio_list \in TensorsUpTo(Ratios, MaxData)
    /\ batch_size \in 1..MaxBatch
    /\ ratio_list_batch = << >>
    /\ args = NoValue
    /\ locals = NoValue
    /\ ret = NoValue

Construct ==
    /\ pc = "new"
    /\ ratio_list_batch' = ratioListBatch(ratio_list, batch_size)
    /\ pc' = "ready"
    /\ UNCHANGED <<config, args, locals, ret>>

NextPlan == Construct

SpecPlan == InitPlan /\ [][NextPlan]_vars

\* C6: the constructor gives every index of [0, data_size) the target ratio of
\* its chunk of batch_size consecutive indices (the last chunk may be shorter):
\* the chunk's leftmost ratio if its rightmost ratio is < 1, otherwise its
\* rightmost ratio if its leftmost ratio is > 1, otherwise 1.
C6_BatchPlan ==
    pc = "ready" =>
        /\ DOMAIN ratio_list_batch = DOMAIN ratio_list
        /\ \A idx \in DOMAIN ratio_list :
              LET chunk == idx \div batch_size
                  l == chunk * batch_size
                  last == l + batch_size - 1
                  r == IF last < Size(ratio_list) THEN last ELSE Size(ratio_list) - 1
              IN  ratio_list_batch[idx] =
                      IF RatioLess(ratio_list[r], One) THEN ratio_list[l]
                      ELSE IF RatioLess(One, ratio_list[l]) THEN ratio_list[r]
                      ELSE One

\* a shorter last chunk, a chunk below 1, and a chunk that straddles 1
C6_Witness ==
    /\ pc = "ready"
    /\ Size(ratio_list) = 3
    /\ batch_size = 2
    /\ RatioLess(ratio_list[0], ratio_list[1])
    /\ RatioLess(ratio_list[1], One)
    /\ ratio_list_batch[1] = ratio_list[0]
    /\ RatioLess(One, ratio_list[2])
    /\ ratio_list_batch[2] = ratio_list[2]

----------------------------------------------------------------------------
(* SpecCrop: _cropImage applied to small images, ratios and box lists *)

CropRatios == {Ratio(1, 2), Ratio(3, 4), One, Ratio(3, 2), Ratio(2, 1)}

\* coordinates tried along an axis of len pixels: every whole pixel, half a
\* step inside, and one step and one whole pixel before the image
CropCoords(len) == {Px(q) : q \in -1..(len - 1)} \cup {-1, 1}

CropSpans(len) == {sp \in CropCoords(len) \X CropCoords(len) : sp[1] <= sp[2]}

\* boxes that span sp along the cropped axis and the whole image along the other
CropBox(sp, other, alongH) ==
    IF alongH THEN BoxRow(0, sp[1], Px(other - 1), sp[2], 1)
    ELSE BoxRow(sp[1], 0, sp[2], Px(other - 1), 1)

InitCrop ==
    /\ pc = "call"
    /\ max_num_box = 1
    /\ max_num_grasp = 1
    /\ NoLoader
    /\ \E r \in CropRatios, len \in 1..MaxCropLen, other \in 1..MaxOtherLen, n \in 1..2 :
          \E sps \in TensorsOf(CropSpans(len), n) :
              LET alongH == RatioLess(r, One)
              IN  args = [data |-> IF alongH THEN Image(len, other) ELSE Image(other, len),
                          gt_boxes |-> [i \in 0..(n - 1) |-> CropBox(sps[i], other, alongH)],
                          target_ratio |-> r]
    /\ locals = NoValue
    /\ ret = NoValue

CallCropImage ==
    /\ pc = "call"
    /\ LET res == cropImage(args.data, args.gt_boxes, args.target_ratio)
       IN  \/ /\ res.raises
              /\ ret' = [raised |-> TRUE]
           \/ /\ ~res.raises
              /\ \E out \in res.outs :
                    ret' = [raised |-> FALSE, data |-> out.data, coord_s |-> out.coord_s]
    /\ pc' = "done"
    /\ UNCHANGED <<config, ratio_list_batch, args, locals>>

NextCrop == CallCropImage

SpecCrop == InitCrop /\ [][NextCrop]_vars

\* what the claims about the crop speak of, from the arguments of the call
CropAlongH == RatioLess(args.target_ratio, One)
CropLen == IF CropAlongH THEN Height(args.data) ELSE Width(args.data)
CropOtherLen == IF CropAlongH THEN Width(args.data) ELSE Height(args.data)
\* the annotation coordinates along the cropped axis
CropAxisCoords ==
    UNION {IF CropAlongH THEN {args.gt_boxes[i][1], args.gt_boxes[i][3]}
           ELSE {args.gt_boxes[i][0], args.gt_boxes[i][2]} : i \in DOMAIN args.gt_boxes}
\* view(-1) raises before the bounds are taken
CropViewRaises == axisValues(args.gt_boxes, IF CropAlongH THEN 1 ELSE 0).raises
\* the locals min_y, max_y (min_x, max_x) and box_region of the call; None
\* when the call raises before it has them
CropMinC == IF CropViewRaises THEN None ELSE IntOf(SetMin(CropAxisCoords))
CropMaxC == IF CropViewRaises THEN None ELSE IntOf(SetMax(CropAxisCoords))
CropRegion == IF CropViewRaises THEN None ELSE CropMaxC - CropMinC + 1
CropTrim ==
    LET r == args.target_ratio
        implied == IF CropAlongH THEN (CropOtherLen * r.d) \div r.n
                   ELSE -((-(CropOtherLen * r.n)) \div r.d)
    IN  IF implied > CropLen THEN CropLen ELSE implied
CropOffset == IF CropAlongH THEN ret.coord_s[1] ELSE ret.coord_s[0]
\* every coordinate of every box lies inside the image
CropInside ==
    \A i \in DOMAIN args.gt_boxes :
        /\ \A c \in {0, 2} : 0 <= args.gt_boxes[i][c] /\ args.gt_boxes[i][c] <= Px(Width(args.data) - 1)
        /\ \A c \in {1, 3} : 0 <= args.gt_boxes[i][c] /\ args.gt_boxes[i][c] <= Px(Height(args.data) - 1)

\* C8 as stated: for annotations inside the image, _cropImage crops the height when
\* target_ratio < 1 and the width otherwise, leaves the other axis alone, and
\* returns trim_size rows (columns): the window [offset, offset + trim_size)
\* of the original image, which lies within it.
C8_CropWindow ==
    (pc = "done" /\ CropInside) =>
        /\ ~ret.raised
        /\ CropOffset >= 0
        /\ CropOffset + CropTrim <= CropLen
        /\ IF CropAlongH
           THEN /\ ret.data.cols = args.data.cols
                /\ ret.coord_s[0] = 0
                /\ Height(ret.data) >= CropTrim
                /\ ret.data.rows = [i \in 0..(CropTrim - 1) |-> CropOffset + i + 1]
           ELSE /\ ret.data.rows = args.data.rows
                /\ ret.coord_s[1] = 0
                /\ Width(ret.data) >= CropTrim
                /\ ret.data.cols = [j \in 0..(CropTrim - 1) |-> CropOffset + j + 1]

\* C9 as stated: whenever box_region >= trim_size the midpoint of the annotation
\* region lies inside the window [offset, offset + trim_size - 1].
C9_MidpointInside ==
    (pc = "done" /\ CropInside /\ ~ret.raised /\ CropRegion >= CropTrim) =>
        /\ 2 * CropOffset <= CropMinC + CropMaxC
        /\ CropMinC + CropMaxC <= 2 * (CropOffset + CropTrim - 1)

\* C10 as stated, for the call: _cropImage raises whenever the least annotation
\* coordinate along the cropped axis is negative, and never raises for
\* annotations inside the image.
C10_CropRaises ==
    pc = "done" =>
        /\ SetMin(CropAxisCoords) < 0 => ret.raised
        /\ CropInside => ~ret.raised

----------------------------------------------------------------------------
(* Samples *)

\* boxes tried in an image: 1 degenerate, 2 the top-left pixels, 3 half a
\* pixel wide and high in the bottom-right corner, 4 starting half a pixel
\* before the image, 5 starting a whole pixel before it
BoxChoice(k, data, label) ==
    CASE k = 1 -> BoxRow(0, 0, 0, Px(1), label)
      [] k = 2 -> BoxRow(0, 0, Px(1), Px(1), label)
      [] k = 3 -> BoxRow(Px(Width(data) - 1) - 1, Px(Height(data) - 1) - 1,
                         Px(Width(data) - 1), Px(Height(data) - 1), label)
      [] k = 4 -> BoxRow(-1, -1, Px(1), Px(1), label)
      [] k = 5 -> BoxRow(-Px(1), -Px(1), Px(1), Px(1), label)

\* a grasp whose four corners lie half a step inside the image
SmallGrasp == [c \in 0..7 |-> 1]

\* a tall and a wide image
SampleImages == {Image(5, 2), Image(2, 5)}

\* the blobs of a sample: n boxes of the kinds ks, labelled 1..n, object o of
\* node id o + 1; with chain, object o is the father of object o + 1; g grasps
SampleBlobs(data, ks, chain, g) ==
    LET n == Size(ks)
    IN  [data |-> data,
         im_info |-> Tensor(<<Height(data), Width(data), 1, 1>>),
         gt_boxes |-> [o \in 0..(n - 1) |-> BoxChoice(ks[o], data, o + 1)],
         gt_grasps |-> [i \in 0..(g - 1) |-> SmallGrasp],
         gt_grasp_inds |-> [i \in 0..(g - 1) |-> i + 1],
         nodeinds |-> [o \in 0..(n - 1) |-> o + 1],
         children |-> [o \in 0..(n - 1) |-> IF chain /\ o + 1 < n THEN {o + 2} ELSE {}],
         fathers |-> [o \in 0..(n - 1) |-> IF chain /\ o > 0 THEN {o} ELSE {}]]

----------------------------------------------------------------------------
(* SpecVmr: the fetches of the three relationship classes *)

VmrRatios == {Ratio(1, 2), One, Ratio(2, 1)}

\* The samples of a class: need_crop only where the class reads it, a grasp
\* for every box where the class reads grasps.  allInOne shuffles the grasps
\* too, and is given one object fewer.
VmrSamplesOf(c) ==
    {[blobs |-> SampleBlobs(data, ks, chain, IF c \in GraspClasses THEN Size(ks) ELSE 0),
      need_crop |-> nc] :
        data \in SampleImages,
        ks \in TensorsUpTo(1..3, IF c \in GraspClasses THEN VmrObjs - 1 ELSE VmrObjs),
        chain \in BOOLEAN,
        nc \in IF c \in MulClasses THEN BOOLEAN ELSE {FALSE}}

InitVmr ==
    /\ pc = "ready"
    /\ cls \in RelClasses
    /\ max_num_box \in 1..MaxNumBoxCap
    /\ max_num_grasp = 1
    /\ training \in BOOLEAN
    /\ ratio_list \in TensorsOf(VmrRatios, 1)
    /\ batch_size = 1
    /\ ratio_list_batch = IF cls \in MulClasses THEN ratioListBatch(ratio_list, batch_size)
                          ELSE << >>
    /\ args = NoValue
    /\ locals = NoValue
    /\ ret = NoValue

NextVmr == Fetch(VmrSamplesOf(cls)) \/ Consume

SpecVmr == InitVmr /\ [][NextVmr]_vars


\* a training fetch that returned its tuple
VmrReturned == pc = "fetched" /\ training /\ ~ret.raised

\* the original object of returned box row i: SampleBlobs labels object o with o + 1
VmrOrig(i) == ret.gt_boxes[i][4] - 1

\* the relationship of original object a to original object b, from the annotations
VmrExpected(a, b) ==
    IF args.blobs.nodeinds[b] \in args.blobs.children[a] THEN FATHER
    ELSE IF args.blobs.nodeinds[b] \in args.blobs.fathers[a] THEN CHILD
    ELSE NOREL

\* C5: in a training fetch of a relationship class, whatever the shuffle and
\* whichever boxes are dropped as degenerate or cut off by max_num_box, row and
\* column i of the returned relationship matrix stand for the original object
\* of returned box row i, for every i < num_boxes; the object order handed to
\* _genRelMat (shuffle_inds after "[keep]") lists exactly those objects.
C5_RelMatAligned ==
    VmrReturned =>
        /\ Size(locals.shuffle_inds) = ret.num_boxes
        /\ \A i \in 0..(ret.num_boxes - 1) :
              /\ VmrOrig(i) \in DOMAIN args.blobs.gt_boxes
              /\ locals.shuffle_inds[i] = VmrOrig(i)
              /\ ret.rel_mat[i][i] = 0
              /\ \A j \in 0..(ret.num_boxes - 1) :
                    i # j => ret.rel_mat[i][j] = VmrExpected(VmrOrig(i), VmrOrig(j))
        /\ \A i, j \in 0..(max_num_box - 1) :
              (i >= ret.num_boxes \/ j >= ret.num_boxes) => ret.rel_mat[i][j] = 0

\* a fetch of three objects of which the first annotated one was dropped as
\* degenerate and the two kept ones, shuffled out of their annotated order,
\* are father and child
C5_Witness ==
    /\ VmrReturned
    /\ Size(args.blobs.gt_boxes) = 3
    /\ ret.num_boxes = 2
    /\ args.blobs.gt_boxes[0][0] = args.blobs.gt_boxes[0][2]
    /\ locals.shuffle_inds = Tensor(<<2, 1>>)
    /\ VmrOrig(0) > VmrOrig(1)
    /\ ret.rel_mat[0][1] = CHILD
    /\ ret.rel_mat[1][0] = FATHER


----------------------------------------------------------------------------
(* SpecObjdetMul: objdetMulInSizeRoibatchLoader, constructed and then fetched from *)

\* the box kinds of the samples: inside the image, and starting before it
ObjKinds == {2, 4, 5}

ObjSamples ==
    {[blobs |-> SampleBlobs(data, ks, FALSE, 0), need_crop |-> nc] :
        data \in SampleImages, ks \in TensorsUpTo(ObjKinds, ObjBoxes), nc \in BOOLEAN}

InitObjdetMul ==
    /\ pc = "new"
    /\ cls = "objdetMulInSizeRoibatchLoader"
    /\ max_num_box = MaxNumBoxCap
    /\ max_num_grasp = 1
    /\ training \in BOOLEAN
    /\ ratio_list \in TensorsUpTo(VmrRatios, ObjData) \ {<< >>}
    /\ batch_size \in 1..ObjBatch
    /\ ratio_list_batch = << >>
    /\ args = NoValue
    /\ locals = NoValue
    /\ ret = NoValue

NextObjdetMul == Construct \/ Fetch(ObjSamples) \/ Consume

SpecObjdetMul == InitObjdetMul /\ [][NextObjdetMul]_vars

\* C7: the batch plan is fixed once constructed: no fetch, training or not,
\* cropping or not, returning or raising, changes ratio_list_batch, and at any
\* time the plan recomputed from the ratio list and the batch size gives every
\* index the target ratio it has.
C7_PlanFixed ==
    /\ [](pc # "new" => ratio_list_batch = ratioListBatch(ratio_list, batch_size))
    /\ [][pc # "new" => ratio_list_batch' = ratio_list_batch]_vars

\* a training fetch that cropped towards a target ratio other than 1
C7_Witness ==
    /\ pc = "fetched"
    /\ training
    /\ args.need_crop
    /\ ~ret.raised
    /\ ratio_list_batch[args.index] # One
    /\ Height(ret.data) < Height(args.blobs.data)


----------------------------------------------------------------------------
(* SpecPad: _paddingImage applied to small images and ratios *)

InitPad ==
    /\ pc = "call"
    /\ max_num_box = 1
    /\ max_num_grasp = 1
    /\ NoLoader
    /\ \E h \in 1..PadLen, w \in 1..PadLen, sc \in 1..PadScale, r \in CropRatios :
          args = [data |-> Image(h, w), im_info |-> Tensor(<<h, w, sc, sc>>),
                  target_ratio |-> r]
    /\ locals = NoValue
    /\ ret = NoValue

CallPaddingImage ==
    /\ pc = "call"
    /\ LET res == paddingImage(args.data, args.im_info, args.target_ratio)
       IN  ret' = IF res.raises THEN [raised |-> TRUE]
                  ELSE [raised |-> FALSE, data |-> res.data, im_info |-> res.im_info]
    /\ pc' = "done"
    /\ UNCHANGED <<config, ratio_list_batch, args, locals>>

NextPad == CallPaddingImage

SpecPad == InitPad /\ [][NextPad]_vars

PadH == Height(args.data)
PadW == Width(args.data)
\* ceil(W / target_ratio) and ceil(H * target_ratio), by negated floor division
PadNewHeight == -((-(PadW * args.target_ratio.d)) \div args.target_ratio.n)
PadNewWidth == -((-(PadH * args.target_ratio.n)) \div args.target_ratio.d)

\* C11: for target_ratio < 1 and H <= ceil(W / target_ratio), _paddingImage
\* returns an image of height ceil(W / target_ratio) and width W whose top H
\* rows are the input and whose other rows are zero, and sets only the height
\* of im_info; for target_ratio > 1 and W <= ceil(H * target_ratio) the same
\* with width and height exchanged.
C11_Padding ==
    pc = "done" =>
        /\ (RatioLess(args.target_ratio, One) /\ PadH <= PadNewHeight) =>
                /\ ~ret.raised
                /\ Height(ret.data) = PadNewHeight
                /\ ret.data.cols = args.data.cols
                /\ \A i \in 0..(PadNewHeight - 1) :
                      ret.data.rows[i] = IF i < PadH THEN args.data.rows[i] ELSE 0
                /\ ret.im_info = [args.im_info EXCEPT ![0] = PadNewHeight]
        /\ (RatioLess(One, args.target_ratio) /\ PadW <= PadNewWidth) =>
                /\ ~ret.raised
                /\ Width(ret.data) = PadNewWidth
                /\ ret.data.rows = args.data.rows
                /\ \A j \in 0..(PadNewWidth - 1) :
                      ret.data.cols[j] = IF j < PadW THEN args.data.cols[j] ELSE 0
                /\ ret.im_info = [args.im_info EXCEPT ![1] = PadNewWidth]

\* a 2 x 3 image padded to the ratio 3/4: ceil(3 / (3/4)) = 4 rows, two of zeros
C11_Witness ==
    /\ pc = "done"
    /\ args.target_ratio = Ratio(3, 4)
    /\ PadH = 2 /\ PadW = 3
    /\ ~ret.raised
    /\ Height(ret.data) = 4
    /\ ret.data.rows[1] = 2
    /\ ret.data.rows[2] = 0
    /\ ret.im_info[0] = 4
    /\ ret.im_info[1] = 3

\* C12: for target_ratio = 1, _paddingImage pads nothing and returns the
\* top-left s x s region of the input, s = min(H, W), with the height and the
\* width of im_info both set to s.
C12_Square ==
    (pc = "done" /\ args.target_ratio = One) =>
        LET s == IF PadH < PadW THEN PadH ELSE PadW
        IN  /\ ~ret.raised
            /\ ret.data = Image(s, s)
            /\ ret.im_info = [args.im_info EXCEPT ![0] = s, ![1] = s]

\* a 4 x 2 image becomes its top 2 x 2 square
C12_Witness ==
    /\ pc = "done"
    /\ args.target_ratio = One
    /\ PadH = 4 /\ PadW = 2
    /\ ~ret.raised
    /\ ret.data = Image(2, 2)
    /\ ret.im_info[0] = 2 /\ ret.im_info[1] = 2


----------------------------------------------------------------------------
(* SpecBoxMul: the multi-size box classes; _cropBox called directly, and fetches *)

BoxMulClasses == BoxClasses \cap MulClasses

\* extents along one axis tried in a direct call: before the image, at its
\* start, half a pixel wide, and past its end
CropBoxExtents == {<<-Px(1), 1>>, <<0, 0>>, <<1, Px(1)>>, <<Px(1), Px(CropBoxLen + 1)>>}

CropBoxRows ==
    {BoxRow(ex[1], ey[1], ex[2], ey[2], label) :
        ex \in CropBoxExtents, ey \in CropBoxExtents, label \in {1}}

\* every kind of box, a grasp for every box where the class reads grasps
BoxMulSamplesOf(c) ==
    {[blobs |-> SampleBlobs(data, ks, FALSE, IF c \in GraspClasses THEN Size(ks) ELSE 0),
      need_crop |-> nc] :
        data \in SampleImages, ks \in TensorsUpTo(1..5, ObjBoxes), nc \in BOOLEAN}

InitBoxMul ==
    /\ pc = "ready"
    /\ cls \in BoxMulClasses
    /\ max_num_box = MaxNumBoxCap
    /\ max_num_grasp = MaxNumGraspCap
    /\ training \in BOOLEAN
    /\ ratio_list \in TensorsOf(VmrRatios, 1)
    /\ batch_size = 1
    /\ ratio_list_batch = ratioListBatch(ratio_list, batch_size)
    /\ args = NoValue
    /\ locals = NoValue
    /\ ret = NoValue

\* _cropBox(data, coord_s, gt_boxes) called on the loader
CallCropBox ==
    /\ pc = "ready"
    /\ \E h \in 1..CropBoxLen, w \in 1..CropBoxLen,
          x_s \in 0..CropBoxLen, y_s \in 0..CropBoxLen,
          gt_boxes \in TensorsUpTo(CropBoxRows, 2) :
            /\ args' = [data |-> Image(h, w), coord_s |-> Tensor(<<x_s, y_s>>),
                        gt_boxes |-> gt_boxes]
            /\ ret' = [gt_boxes |-> cropBox(Image(h, w), Tensor(<<x_s, y_s>>), gt_boxes)]
    /\ locals' = NoValue
    /\ pc' = "called"
    /\ UNCHANGED <<config, ratio_list_batch>>

NextBoxMul == CallCropBox \/ Fetch(BoxMulSamplesOf(cls)) \/ Consume

SpecBoxMul == InitBoxMul /\ [][NextBoxMul]_vars

\* c shifted by the whole-pixel offset s and clamped into [0, len - 1] pixels
ShiftClamped(c, s, len) ==
    IF c - Px(s) < 0 THEN 0
    ELSE IF c - Px(s) > Px(len - 1) THEN Px(len - 1)
    ELSE c - Px(s)

\* C13: _cropBox returns as many rows in the same order, labels unchanged,
\* every x equal to clamp(x - x_s, 0, W - 1) and every y equal to
\* clamp(y - y_s, 0, H - 1); and after a training fetch of a multi-size box
\* class every coordinate of every returned box lies inside the returned image.
C13_CropBox ==
    /\ pc = "called" =>
          /\ DOMAIN ret.gt_boxes = DOMAIN args.gt_boxes
          /\ \A i \in DOMAIN args.gt_boxes :
                /\ DOMAIN ret.gt_boxes[i] = 0..4
                /\ ret.gt_boxes[i][4] = args.gt_boxes[i][4]
                /\ \A c \in {0, 2} :
                      ret.gt_boxes[i][c] =
                          ShiftClamped(args.gt_boxes[i][c], args.coord_s[0], Width(args.data))
                /\ \A c \in {1, 3} :
                      ret.gt_boxes[i][c] =
                          ShiftClamped(args.gt_boxes[i][c], args.coord_s[1], Height(args.data))
    /\ (pc = "fetched" /\ training /\ ~ret.raised) =>
          \A i \in DOMAIN ret.gt_boxes :
              /\ \A c \in {0, 2} :
                    0 <= ret.gt_boxes[i][c] /\ ret.gt_boxes[i][c] <= Px(Width(ret.data) - 1)
              /\ \A c \in {1, 3} :
                    0 <= ret.gt_boxes[i][c] /\ ret.gt_boxes[i][c] <= Px(Height(ret.data) - 1)

\* a cropping fetch that returned a box whose annotation began before the
\* image, its start clamped to 0
C13_Witness ==
    /\ pc = "fetched"
    /\ training
    /\ args.need_crop
    /\ ~ret.raised
    /\ Height(ret.data) < Height(args.blobs.data)
    /\ \E i \in 0..(ret.num_boxes - 1) :
          /\ args.blobs.gt_boxes[ret.gt_boxes[i][4] - 1][1] < 0
          /\ ret.gt_boxes[i][1] = 0
          /\ ret.gt_boxes[i][3] > 0


----------------------------------------------------------------------------
(* SpecCropGrasp: _cropGrasp applied to small images, offsets and grasp lists *)

\* a grasp of four corner points, a half-pixel square with its first corner at (x, y)
GraspSquare(x, y) ==
    Tensor(<<x, y, x + 1, y, x + 1, y + 1, x, y + 1>>)

GraspSquares == {GraspSquare(x, y) : x \in 0..Px(2), y \in 0..Px(2)}

InitCropGrasp ==
    /\ pc = "call"
    /\ max_num_box = 1
    /\ max_num_grasp = 1
    /\ NoLoader
    /\ \E h \in 2..GraspCropLen, w \in 2..GraspCropLen,
          x_s \in 0..GraspCropOff, y_s \in 0..GraspCropOff, m \in 0..2 :
          \E gs \in TensorsOf(GraspSquares, m), with_inds \in BOOLEAN :
              args = [data |-> Image(h, w), coord_s |-> Tensor(<<x_s, y_s>>),
                      gt_grasps |-> gs,
                      gt_grasp_inds |-> IF with_inds THEN [i \in 0..(m - 1) |-> i + 1]
                                        ELSE None]
    /\ locals = NoValue
    /\ ret = NoValue

CallCropGrasp ==
    /\ pc = "call"
    /\ ret' = cropGrasp(args.data, args.coord_s, args.gt_grasps, args.gt_grasp_inds)
    /\ pc' = "done"
    /\ UNCHANGED <<config, ratio_list_batch, args, locals>>

NextCropGrasp == CallCropGrasp

SpecCropGrasp == InitCropGrasp /\ [][NextCropGrasp]_vars

\* grasp i with x_s taken from its four x and y_s from its four y coordinates
GraspExpected(i) ==
    [c \in 0..7 |-> IF c % 2 = 0 THEN args.gt_grasps[i][c] - Px(args.coord_s[0])
                     ELSE args.gt_grasps[i][c] - Px(args.coord_s[1])]

\* the grasps whose four shifted corners lie in the open image
GraspExpectedKept ==
    Nonzero([i \in DOMAIN args.gt_grasps |->
        \A c \in 0..7 :
            /\ 0 < GraspExpected(i)[c]
            /\ GraspExpected(i)[c] < IF c % 2 = 0 THEN Px(Width(args.data))
                                       ELSE Px(Height(args.data))])

\* C14 as stated: _cropGrasp takes x_s from all four x and y_s from all four y
\* coordinates of every grasp and returns, in their order and unclamped,
\* exactly the grasps whose four shifted corners satisfy 0 < x < width and
\* 0 < y < height; a supplied index array is filtered alike.
C14_CropGrasp ==
    pc = "done" =>
        /\ ret.gt_grasps = [k \in DOMAIN GraspExpectedKept |-> GraspExpected(GraspExpectedKept[k])]
        /\ args.gt_grasp_inds # None =>
                ret.gt_grasp_inds = Gather(args.gt_grasp_inds, GraspExpectedKept)


----------------------------------------------------------------------------
(* The start offsets of _cropImage, on SpecCrop *)

\* the starts that keep the annotated span [min_c, max_c] inside the window
\* [s, s + trim_size - 1] and the window inside the image; none when the call
\* raises before it has min_c and max_c
CropValidStarts ==
    IF CropViewRaises THEN {}
    ELSE {st \in 0..(CropLen - CropTrim) : st <= CropMinC /\ CropMaxC <= st + CropTrim - 1}

\* the starts the call can return
CropPossibleStarts ==
    LET res == cropImage(args.data, args.gt_boxes, args.target_ratio)
    IN  IF res.raises THEN {}
        ELSE {IF CropAlongH THEN out.coord_s[1] ELSE out.coord_s[0] : out \in res.outs}

\* C15 as stated: when the call has box_region < trim_size and the annotations
\* are inside the image, every start s the call can choose keeps the annotated
\* span inside the window (s <= min_c and max_c <= s + trim_size - 1), and
\* every such start within the image can be chosen (so a single valid start
\* is the one chosen).
C15_SpanInsideWindow ==
    (CropInside /\ ~CropViewRaises /\ CropRegion < CropTrim) =>
        /\ pc = "done" =>
              /\ ~ret.raised
              /\ CropOffset <= CropMinC
              /\ CropMaxC <= CropOffset + CropTrim - 1
        /\ pc = "call" => CropPossibleStarts = CropValidStarts


\* box_region - trim_size
CropExcess == IF CropViewRaises THEN None ELSE CropRegion - CropTrim

\* C16 as stated: when the call has box_region >= trim_size, the start is
\* determined by the inputs alone and equals min_c + floor((box_region -
\* trim_size) / 2), which is min_c when the excess is zero.
C16_CentredStart ==
    (CropInside /\ ~CropViewRaises /\ CropRegion >= CropTrim) =>
        /\ pc = "call" => CropPossibleStarts = {CropMinC + CropExcess \div 2}
        /\ pc = "done" => CropOffset = CropMinC + CropExcess \div 2

----------------------------------------------------------------------------
(* SpecRoiG: fetches of the two classes that read boxes and grasps *)

RoiGClasses == BoxClasses \cap GraspClasses

\* N >= 1 boxes inside the image and M >= 1 grasps inside it, N and M unrelated
RoiGSamples ==
    {[blobs |-> SampleBlobs(data, ks, FALSE, g), need_crop |-> nc] :
        data \in SampleImages,
        ks \in TensorsUpTo({2, 3}, ObjBoxes) \ {<< >>},
        g \in 1..ObjBoxes,
        nc \in BOOLEAN}

InitRoiG ==
    /\ pc = "ready"
    /\ cls \in RoiGClasses
    /\ max_num_box = MaxNumBoxCap
    /\ max_num_grasp = MaxNumGraspCap
    /\ training \in BOOLEAN
    /\ ratio_list \in TensorsOf(VmrRatios, 1)
    /\ batch_size = 1
    /\ ratio_list_batch = ratioListBatch(ratio_list, batch_size)
    /\ args = NoValue
    /\ locals = NoValue
    /\ ret = NoValue

NextRoiG == Fetch(RoiGSamples) \/ Consume

SpecRoiG == InitRoiG /\ [][NextRoiG]_vars

\* the coordinates of all boxes and of all four corners of all grasps of the
\* sample along an axis: start = 0 for x, 1 for y
RoiGAllCoords(start) ==
    UNION {{args.blobs.gt_boxes[i][c] : c \in {start, start + 2}}
           : i \in DOMAIN args.blobs.gt_boxes}
    \cup UNION {{args.blobs.gt_grasps[i][c] : c \in {k \in 0..7 : k % 2 = start}}
                : i \in DOMAIN args.blobs.gt_grasps}

\* what the fetch hands to _cropImage, for every shuffle of the boxes and of
\* the grasps it can have drawn
RoiGCropArgs ==
    {mulCropArg(cls, Gather(args.blobs.gt_boxes, shuffle_b),
                Gather(args.blobs.gt_grasps, shuffle_g))
     : shuffle_b \in Perms(Size(args.blobs.gt_boxes)),
       shuffle_g \in Perms(Size(args.blobs.gt_grasps))}

\* C17 as stated: in the two box-and-grasp classes, a training fetch of a
\* need_crop sample with any N boxes and any M grasps completes, and the
\* bounds _cropImage takes along either axis are the least and the greatest
\* coordinate of all boxes and all grasp corners.
C17_CombinedCrop ==
    (pc = "fetched" /\ training /\ args.need_crop) =>
        /\ ~ret.raised
        /\ \A arg \in RoiGCropArgs :
              /\ ~arg.raises
              /\ \A start \in {0, 1} :
                    LET view == axisValues(arg.gt_boxes, start)
                    IN  /\ ~view.raises
                        /\ SetMin(view.values) = SetMin(RoiGAllCoords(start))
                        /\ SetMax(view.values) = SetMax(RoiGAllCoords(start))

============================================================================
